---- MODULE Spec2Model ----
(***************************************************************************)
(* Tutor-RAG-AI: the ingestion-and-retrieval pipeline.                     *)
(*   app/vector_store_faiss.py  VectorStoreFAISS (index + side table)      *)
(*   app/main.py                upload / query / delete / info handlers    *)
(*   app/pdf_processor.py       PDFProcessor (extraction, cleaning,        *)
(*                              chunking)                                  *)
(* Spec        : the embedding index, its files and the handlers.          *)
(* SpecExtract : PDFProcessor._extract_text_from_pdf on one document.      *)
(* SpecClean   : PDFProcessor._clean_text applied once and twice.          *)
(* SpecChunk   : PDFProcessor.__init__, _chunk_text and process_pdf.       *)
(* SpecConc    : add_document and search of one VectorStoreFAISS running   *)
(*               in two threads, statement by statement.                   *)
(***************************************************************************)
EXTENDS Integers, Sequences, FiniteSets, TLC

VARIABLES
    index,        \* self.index: the vectors held by the faiss index, in order
    documents,    \* self.documents: the side table
    diskIndex,    \* file index.faiss
    diskDocs,     \* file documents.pkl
    dbDocs,       \* rows of models.Document: doc id -> chunk_count (0 = no row)
    usedIds,      \* document ids uuid4 has handed out
    running,      \* a VectorStoreFAISS object exists in a live process
    lastOp,       \* the operation that ran last
    lastDoc,      \* the indexed or uploaded document it was about (0: none)
    ret,          \* what it returned (search: the list of hits)
    raised,       \* the exception the called method raised ("" = none)
    status,       \* the HTTP status a handler answered with (0: not a handler)
    hitPos,       \* side-table positions the last search resolved its hits to
    failedDocs,   \* ids whose add_document raised
    deletedOk,    \* ids whose delete request answered "deleted successfully"
    pdf,          \* the document given to _extract_text_from_pdf
    pc,           \* _extract_text_from_pdf: position
    text,         \* _extract_text_from_pdf: the local `text`, as segments
    tried,        \* strategies attempted so far, in order
    outcome,      \* strategy -> "none" | "success" | "under" | "raised"
    prevStripped, \* len(text.strip()) at the entry of each strategy tried
    secondAlone,  \* the text pdfplumber extracts from this document on its own
    reached,      \* strategy -> the last page its loop entered (0: none)
    error,        \* the error _extract_text_from_pdf raised ("" = none)
    src,          \* the text given to _clean_text
    cleaned,      \* _clean_text(src)
    recleaned,    \* _clean_text(_clean_text(src))
    cpc,          \* which of the two calls have been made
    chunk_size,   \* self.chunk_size (0: no PDFProcessor constructed)
    chunk_overlap,\* self.chunk_overlap
    doc,          \* the text extraction returned to process_pdf
    body,         \* _chunk_text: its argument `text`
    caller,       \* who called _chunk_text: "process_pdf" or "direct"
    kpc,          \* the chunker's position
    start,        \* _chunk_text: start
    chunkList,    \* _chunk_text: chunks (chunk_count is its length)
    starts,       \* the value of start each chunk of chunkList was cut at
    result,       \* what _chunk_text or process_pdf returned
    apc,          \* the thread in add_document: its position
    adding,       \* add_document: doc_id, chunks, embeddings, records appended
    spc,          \* the thread in search: its position
    searching,    \* search: query and the label row index.search returned
    seen          \* the finished search: <<ntotal it searched, len(documents) it read>>

idxVars == <<index, documents, diskIndex, diskDocs, dbDocs, usedIds, running,
             lastOp, lastDoc, ret, raised, status, hitPos, failedDocs, deletedOk>>
exVars == <<pdf, pc, text, tried, outcome, prevStripped, secondAlone, reached, error>>
clVars == <<src, cleaned, recleaned, cpc>>
chVars == <<chunk_size, chunk_overlap, doc, body, caller, kpc, start,
            chunkList, starts, result>>
coVars == <<apc, adding, spc, searching, seen>>
vars == <<idxVars, exVars, clVars, chVars, coVars>>

\* ---------------------------------------------------------------- bounds
NumDocs == 2
MaxChunks == 2
NumPages == 2

DocIds == 1..NumDocs
Queries == {"q"}

\* the chunks process_pdf may hand to add_document for upload d: a non-empty
\* list of at most MaxChunks chunks, the chunk texts being "a" or "b"
DocText(d) == [i \in 1..MaxChunks |-> IF (d + i) % 2 = 0 THEN "a" ELSE "b"]
ChunkLists(d) == {SubSeq(DocText(d), 1, n) : n \in 1..MaxChunks}

\* ------------------------------------------- app/vector_store_faiss.py
\* SentenceTransformer.encode on one text: a deterministic vector.
Embed(s) == CASE s = "a" -> 1 [] s = "b" -> 4 [] OTHER -> 2

\* encode(chunks): one vector per chunk, in order.
Encode(chunks) == [i \in 1..Len(chunks) |-> Embed(chunks[i])]

\* faiss pads the neighbours it cannot find with label -1 and this distance.
FltMax == 1000

\* squared Euclidean distance of IndexFlatL2
L2(x, y) == (x - y) * (x - y)

\* add_document losing the last chunk's record
NewRecordsShort(doc_id, chunks) ==
    [i \in 1..(Len(chunks) - 1) |->
        [id |-> <<doc_id, i - 1>>, content |-> chunks[i], doc_id |-> doc_id]]

\* the records add_document appends: {'id': f"{doc_id}_{i}", 'content', 'doc_id'}
NewRecords(doc_id, chunks) ==
    [i \in 1..Len(chunks) |->
        [id |-> <<doc_id, i - 1>>, content |-> chunks[i], doc_id |-> doc_id]]

\* add_document up to the call of _save_index: the in-memory state it leaves
AddInMemory(idx, docs, doc_id, chunks) ==
    [index |-> idx \o Encode(chunks),
     documents |-> docs \o NewRecords(doc_id, chunks)]

\* files
Missing == [state |-> "missing", data |-> <<>>]
Corrupt == [state |-> "corrupt", data |-> <<>>]

\* faiss.write_index: header (ntotal) followed by the vectors
WriteIndex(idx) == [state |-> "ok", data |-> <<Len(idx)>> \o idx]

\* faiss.read_index
ReadIndex(f) == SubSeq(f.data, 2, f.data[1] + 1)

\* a serialization that loses the owning document id
PickleDumpLossy(docs) ==
    [state |-> "ok",
     data |-> [i \in 1..Len(docs) |-> <<docs[i].id, docs[i].content, 0>>]]

\* pickle.dump(self.documents): each dict flattened to its values
PickleDump(docs) ==
    [state |-> "ok",
     data |-> [i \in 1..Len(docs) |->
                  <<docs[i].id, docs[i].content, docs[i].doc_id>>]]

\* pickle.load
PickleLoad(f) ==
    [i \in 1..Len(f.data) |->
        [id |-> f.data[i][1], content |-> f.data[i][2], doc_id |-> f.data[i][3]]]

\* _load_index: both files exist -> read them (raises on an unreadable file),
\* otherwise a new empty index
LoadIndex(fi, fd) ==
    IF fi.state # "missing" /\ fd.state # "missing"
    THEN IF fi.state = "corrupt" \/ fd.state = "corrupt"
         THEN [raised |-> TRUE, index |-> <<>>, documents |-> <<>>]
         ELSE [raised |-> FALSE, index |-> ReadIndex(fi), documents |-> PickleLoad(fd)]
    ELSE [raised |-> FALSE, index |-> <<>>, documents |-> <<>>]

\* _save_index stopped at point p (by an exception or by the death of the
\* process): the files it leaves. Both writers open their file for writing,
\* which truncates it, and then write.
SavePoints == {"index_open", "index_write", "docs_open", "docs_write"}

SaveStopped(p, idx, docs, fi, fd) ==
    CASE p = "index_open"  -> [index |-> fi, docs |-> fd]
      [] p = "index_write" -> [index |-> Corrupt, docs |-> fd]
      [] p = "docs_open"   -> [index |-> WriteIndex(idx), docs |-> fd]
      [] OTHER             -> [index |-> WriteIndex(idx), docs |-> Corrupt]

\* _save_index run to its end
SaveIndex(idx, docs) == [index |-> WriteIndex(idx), docs |-> PickleDump(docs)]

\* search(self, query, top_k=5)
DefaultTopK == 5

\* index.search(query_embedding, top_k): the label row, the min(top_k, ntotal)
\* nearest positions (0-based) by ascending distance, equal distances by
\* ascending position, then -1 up to top_k
Closer(q, idx, a, b) ==
    \/ L2(q, idx[a]) < L2(q, idx[b])
    \/ L2(q, idx[a]) = L2(q, idx[b]) /\ a < b

RECURSIVE Nearest(_, _, _, _)
\* the k nearest of the positions in `left`, nearest first
Nearest(q, idx, left, k) ==
    IF k = 0 \/ left = {} THEN <<>>
    ELSE LET a == CHOOSE x \in left : \A y \in left \ {x} : Closer(q, idx, x, y)
         IN  <<a - 1>> \o Nearest(q, idx, left \ {a}, k - 1)

Ranking(q, idx, k) ==
    LET found == Nearest(q, idx, 1..Len(idx), k)
    IN  found \o [i \in 1..(k - Len(found)) |-> -1]

\* distances[0][i] for the label row I
Distance(I, i, q, idx) == IF I[i] = -1 THEN FltMax ELSE L2(q, idx[I[i] + 1])

\* Python list indexing: self.documents[idx], a negative idx counting from the end
PyPos(docs, i) == IF i >= 0 THEN i + 1 ELSE Len(docs) + i + 1

RECURSIVE KeptRows(_, _, _)
\* the loop of search over the first n labels of row I: the i that pass the
\* filter `if idx < len(self.documents)`, in order
KeptRows(I, n, docs) ==
    IF n = 0 THEN <<>>
    ELSE LET head == KeptRows(I, n - 1, docs)
         IN  IF I[n] < Len(docs) THEN Append(head, n) ELSE head

\* self.documents[idx] raises IndexError when idx is outside the list
SearchRaises(I, docs) ==
    \E i \in DOMAIN I :
        I[i] < Len(docs) /\ PyPos(docs, I[i]) \notin 1..Len(docs)

\* search: the list of (content, distance) tuples
SearchResults(I, q, idx, docs) ==
    LET rows == KeptRows(I, Len(I), docs)
    IN  [r \in 1..Len(rows) |->
            <<docs[PyPos(docs, I[rows[r]])].content, Distance(I, rows[r], q, idx)>>]

\* the side-table positions those tuples were read from
SearchPositions(I, docs) ==
    LET rows == KeptRows(I, Len(I), docs)
    IN  [r \in 1..Len(rows) |-> PyPos(docs, I[rows[r]])]

\* ------------------------------ app/vector_store.py (not in the sources)
\* delete_document(doc_id): drops every record of doc_id and rebuilds the
\* index from the records it keeps
RECURSIVE Retained(_, _)
Retained(docs, doc_id) ==
    IF docs = <<>> THEN <<>>
    ELSE LET n == Len(docs)
             head == Retained(SubSeq(docs, 1, n - 1), doc_id)
         IN  IF docs[n].doc_id = doc_id THEN head ELSE Append(head, docs[n])

DeleteInMemory(docs, doc_id) ==
    LET kept == Retained(docs, doc_id)
    IN  [index |-> [i \in 1..Len(kept) |-> Embed(kept[i].content)],
         documents |-> kept]

\* get_document_chunks(doc_id): the number of chunks indexed for doc_id
DocumentChunkStats(docs, doc_id) ==
    Cardinality({i \in 1..Len(docs) : docs[i].doc_id = doc_id})

\* ------------------------------------------------------- app/main.py
\* query_document / query_document_stream: top_k of the search
QueryTopK == 3

\* the values of top_k searched with: 1, the handlers' 3 and the default
TopKs == {1, QueryTopK, DefaultTopK}

Sentinel == "No documents have been processed yet. Please upload a PDF first."

\* `for chunk, _, _ in search_results` raises unless every hit has 3 elements
Unpacks(results) == \A i \in 1..Len(results) : Len(results[i]) = 3

\* the status query_document answers with, given the search results
QueryStatus(results) ==
    IF results # <<>> /\ results[1][1] # Sentinel
    THEN IF Unpacks(results) THEN 200 ELSE 500
    ELSE 200

\* upload_pdf: `if len(pdf_reader.pages) > 100`
MaxPages == 100

\* the page counts an uploaded file may have, at and over the ceiling
PageCounts == {MaxPages, MaxPages + 1}

TooLargeDetail == "PDF too large (max 100 pages). Please use a smaller document."
InvalidPdfDetail == "Invalid or corrupted PDF file"
UnexpectedDetail == "Unexpected error processing PDF"

NoException == [type |-> "", status |-> 0, detail |-> ""]

\* lines 104-116, the body of the validation try block: PdfReader raises on
\* an unreadable file, the page test raises HTTPException(400)
ValidationBody(readable, pages) ==
    IF ~readable THEN [type |-> "PdfReadError", status |-> 0, detail |-> "unreadable"]
    ELSE IF pages > MaxPages
         THEN [type |-> "HTTPException", status |-> 400, detail |-> TooLargeDetail]
         ELSE NoException

\* lines 114-116, `except Exception as e`: whatever the body raised is raised
\* again as HTTPException(400, "Invalid or corrupted PDF file: ...")
ValidatePdf(readable, pages) ==
    IF ValidationBody(readable, pages) = NoException THEN NoException
    ELSE [type |-> "HTTPException", status |-> 400, detail |-> InvalidPdfDetail]

\* lines 201-210, the handlers of the outer try block: ValueError -> 400 with
\* its own message, any other exception -> 500 "Unexpected error ..."
UploadHandlers(exc) ==
    IF exc.type = "ValueError"
    THEN [type |-> "HTTPException", status |-> 400, detail |-> exc.detail]
    ELSE [type |-> "HTTPException", status |-> 500, detail |-> UnexpectedDetail]

\* ------------------------------------------------------------ the index
\* doc_id = str(uuid.uuid4()): an id never handed out before
FreshIds == {d \in DocIds \ usedIds : \A e \in DocIds \ usedIds : d <= e}
NoRows == [d \in DocIds |-> 0]

InitIndex ==
    /\ index = <<>>
    /\ documents = <<>>
    /\ diskIndex = Missing
    /\ diskDocs = Missing
    /\ dbDocs = NoRows
    /\ usedIds = {}
    /\ running = TRUE
    /\ lastOp = "init"
    /\ lastDoc = 0
    /\ ret = <<>>
    /\ raised = ""
    /\ status = 0
    /\ hitPos = <<>>
    /\ failedDocs = {}
    /\ deletedOk = {}

\* upload_pdf, the validation block raising: the request ends before
\* process_pdf and add_document are reached
UploadRejected ==
    \E d \in FreshIds, readable \in BOOLEAN, pages \in PageCounts :
        LET answer == UploadHandlers(ValidatePdf(readable, pages))
        IN  /\ running
            /\ ValidatePdf(readable, pages) # NoException
            /\ usedIds' = usedIds \cup {d}
            /\ lastOp' = IF readable THEN "upload_too_many_pages" ELSE "upload_unreadable"
            /\ lastDoc' = d
            /\ raised' = answer.detail
            /\ ret' = <<>>
            /\ status' = answer.status
            /\ hitPos' = <<>>
            /\ UNCHANGED <<index, documents, diskIndex, diskDocs, dbDocs, running,
                           failedDocs, deletedOk>>
            /\ UNCHANGED <<exVars, clVars, chVars, coVars>>

\* upload_pdf, add_document and the metadata row both succeeding
UploadOk ==
    \E d \in FreshIds : \E chunks \in ChunkLists(d) :
        LET mem == AddInMemory(index, documents, d, chunks)
            disk == SaveIndex(mem.index, mem.documents)
        IN  /\ running
            /\ index' = mem.index
            /\ documents' = mem.documents
            /\ diskIndex' = disk.index
            /\ diskDocs' = disk.docs
            /\ dbDocs' = [dbDocs EXCEPT ![d] = Len(chunks)]
            /\ usedIds' = usedIds \cup {d}
            /\ lastOp' = "upload_ok"
            /\ lastDoc' = d
            /\ raised' = ""
            /\ ret' = <<>>
            /\ status' = 200
            /\ hitPos' = <<>>
            /\ UNCHANGED <<running, failedDocs, deletedOk>>
            /\ UNCHANGED <<exVars, clVars, chVars, coVars>>

\* upload_pdf, the encoder raising in add_document
UploadEncoderRaises ==
    \E d \in FreshIds :
        /\ running
        /\ usedIds' = usedIds \cup {d}
        /\ failedDocs' = failedDocs \cup {d}
        /\ lastOp' = "upload_encoder_raised"
        /\ lastDoc' = d
        /\ raised' = "EncoderError"
        /\ ret' = <<>>
        /\ status' = 500
        /\ hitPos' = <<>>
        /\ UNCHANGED <<index, documents, diskIndex, diskDocs, dbDocs, running, deletedOk>>
        /\ UNCHANGED <<exVars, clVars, chVars, coVars>>

\* upload_pdf, a file operation of _save_index raising in add_document
UploadSaveRaises ==
    \E d \in FreshIds, p \in SavePoints : \E chunks \in ChunkLists(d) :
        LET mem == AddInMemory(index, documents, d, chunks)
            disk == SaveStopped(p, mem.index, mem.documents, diskIndex, diskDocs)
        IN  /\ running
            /\ index' = mem.index
            /\ documents' = mem.documents
            /\ diskIndex' = disk.index
            /\ diskDocs' = disk.docs
            /\ usedIds' = usedIds \cup {d}
            /\ failedDocs' = failedDocs \cup {d}
            /\ lastOp' = "upload_save_raised"
            /\ lastDoc' = d
            /\ raised' = "OSError"
            /\ ret' = <<>>
            /\ status' = 500
            /\ hitPos' = <<>>
            /\ UNCHANGED <<dbDocs, running, deletedOk>>
            /\ UNCHANGED <<exVars, clVars, chVars, coVars>>

\* the process dying inside _save_index during an upload
UploadCrash ==
    \E d \in FreshIds, p \in SavePoints : \E chunks \in ChunkLists(d) :
        LET mem == AddInMemory(index, documents, d, chunks)
            disk == SaveStopped(p, mem.index, mem.documents, diskIndex, diskDocs)
        IN  /\ running
            /\ running' = FALSE
            /\ index' = <<>>
            /\ documents' = <<>>
            /\ diskIndex' = disk.index
            /\ diskDocs' = disk.docs
            /\ usedIds' = usedIds \cup {d}
            /\ lastOp' = "upload_crash"
            /\ lastDoc' = d
            /\ raised' = ""
            /\ ret' = <<>>
            /\ status' = 0
            /\ hitPos' = <<>>
            /\ UNCHANGED <<dbDocs, failedDocs, deletedOk>>
            /\ UNCHANGED <<exVars, clVars, chVars, coVars>>

\* VectorStoreFAISS(): __init__ and _load_index in a new process
Restart ==
    LET loaded == LoadIndex(diskIndex, diskDocs)
    IN  /\ running' = ~loaded.raised
        /\ index' = loaded.index
        /\ documents' = loaded.documents
        /\ lastOp' = IF loaded.raised THEN "restart_failed" ELSE "restart"
        /\ raised' = IF loaded.raised THEN "LoadError" ELSE ""
        /\ lastDoc' = 0
        /\ ret' = <<>>
        /\ status' = 0
        /\ hitPos' = <<>>
        /\ UNCHANGED <<diskIndex, diskDocs, dbDocs, usedIds, failedDocs, deletedOk>>
        /\ UNCHANGED <<exVars, clVars, chVars, coVars>>

\* the outcome of search for the label row I
SearchCall(I, q) ==
    IF SearchRaises(I, documents)
    THEN [raised |-> "IndexError", results |-> <<>>, positions |-> <<>>]
    ELSE [raised |-> "",
          results |-> SearchResults(I, Embed(q), index, documents),
          positions |-> SearchPositions(I, documents)]

\* search(query, top_k)
Search ==
    \E q \in Queries, k \in TopKs :
        LET call == SearchCall(Ranking(Embed(q), index, k), q)
        IN  /\ running
            /\ ret' = call.results
            /\ hitPos' = call.positions
            /\ raised' = call.raised
            /\ lastOp' = "search"
            /\ lastDoc' = 0
            /\ status' = 0
            /\ UNCHANGED <<index, documents, diskIndex, diskDocs, dbDocs, usedIds,
                           running, failedDocs, deletedOk>>
            /\ UNCHANGED <<exVars, clVars, chVars, coVars>>

\* query_document: search(question, top_k=3), then the context from the hits
QueryDocument ==
    \E q \in Queries :
        LET call == SearchCall(Ranking(Embed(q), index, QueryTopK), q)
        IN  /\ running
            /\ ret' = call.results
            /\ hitPos' = call.positions
            /\ raised' = call.raised
            /\ status' = IF call.raised # "" THEN 500 ELSE QueryStatus(call.results)
            /\ lastOp' = "query"
            /\ lastDoc' = 0
            /\ UNCHANGED <<index, documents, diskIndex, diskDocs, dbDocs, usedIds,
                           running, failedDocs, deletedOk>>
            /\ UNCHANGED <<exVars, clVars, chVars, coVars>>

\* delete_document of a document that has no metadata row
DeleteUnknown ==
    \E d \in DocIds :
        /\ running
        /\ dbDocs[d] = 0
        /\ lastOp' = "delete_unknown"
        /\ lastDoc' = 0
        /\ raised' = ""
        /\ ret' = <<>>
        /\ status' = 404
        /\ hitPos' = <<>>
        /\ UNCHANGED <<index, documents, diskIndex, diskDocs, dbDocs, usedIds,
                       running, failedDocs, deletedOk>>
        /\ UNCHANGED <<exVars, clVars, chVars, coVars>>

\* delete_document, vector_store.delete_document succeeding
DeleteOk ==
    \E d \in DocIds :
        LET mem == DeleteInMemory(documents, d)
            disk == SaveIndex(mem.index, mem.documents)
        IN  /\ running
            /\ dbDocs[d] # 0
            /\ index' = mem.index
            /\ documents' = mem.documents
            /\ diskIndex' = disk.index
            /\ diskDocs' = disk.docs
            /\ dbDocs' = [dbDocs EXCEPT ![d] = 0]
            /\ deletedOk' = deletedOk \cup {d}
            /\ lastOp' = "delete_ok"
            /\ lastDoc' = d
            /\ raised' = ""
            /\ ret' = <<>>
            /\ status' = 200
            /\ hitPos' = <<>>
            /\ UNCHANGED <<usedIds, running, failedDocs>>
            /\ UNCHANGED <<exVars, clVars, chVars, coVars>>

\* delete_document, vector_store.delete_document raising: the handler logs a
\* warning, deletes the row and answers "Document deleted successfully"
DeleteSwallowed ==
    \E d \in DocIds :
        /\ running
        /\ dbDocs[d] # 0
        /\ dbDocs' = [dbDocs EXCEPT ![d] = 0]
        /\ deletedOk' = deletedOk \cup {d}
        /\ lastOp' = "delete_swallowed"
        /\ lastDoc' = d
        /\ raised' = "OSError"
        /\ ret' = <<>>
        /\ status' = 200
        /\ hitPos' = <<>>
        /\ UNCHANGED <<index, documents, diskIndex, diskDocs, usedIds, running, failedDocs>>
        /\ UNCHANGED <<exVars, clVars, chVars, coVars>>

\* get_document_info
GetDocumentInfo ==
    \E d \in DocIds :
        /\ running
        /\ lastOp' = "info"
        /\ lastDoc' = IF dbDocs[d] = 0 THEN 0 ELSE d
        /\ raised' = ""
        /\ ret' = IF dbDocs[d] = 0 THEN <<>>
                  ELSE <<dbDocs[d], DocumentChunkStats(documents, d)>>
        /\ status' = IF dbDocs[d] = 0 THEN 404 ELSE 200
        /\ hitPos' = <<>>
        /\ UNCHANGED <<index, documents, diskIndex, diskDocs, dbDocs, usedIds,
                       running, failedDocs, deletedOk>>
        /\ UNCHANGED <<exVars, clVars, chVars, coVars>>

Next ==
    \/ UploadRejected
    \/ UploadOk
    \/ UploadEncoderRaises
    \/ UploadSaveRaises
    \/ UploadCrash
    \/ Restart
    \/ Search
    \/ QueryDocument
    \/ DeleteUnknown
    \/ DeleteOk
    \/ DeleteSwallowed
    \/ GetDocumentInfo

\* ------------------------------------------------- app/pdf_processor.py
\* `if len(text) > 1000000: text = text[:1000000]`
TextLimit == 1000000

\* `len(text.strip()) > 100` (a strategy succeeded), `< 100` (try OCR, give up)
MinText == 100

\* A page's text is a run of non-blank characters. The local `text` is kept as
\* the segments it was built from, <<strategy, page, characters kept, n + 1>>:
\* a page of n > 0 characters adds n + 1 characters (`page_text + "\n"`).
PageLens == {0, 60, 100, 600000}

\* what a strategy meets on one page: the length of its text, or -1 for an error
PageResults == PageLens \cup {-1}

\* a strategy's run over the document: whether opening raises, and the pages
Runs == [opens : BOOLEAN, pages : [1..NumPages -> PageResults]]

RECURSIVE TextLen(_)
TextLen(t) == IF t = <<>> THEN 0 ELSE t[Len(t)][3] + TextLen(SubSeq(t, 1, Len(t) - 1))

\* the text left as it is, whatever its length
TruncateNothing(t, limit) == t

\* text[:limit], text being over the limit by its last segment only
Truncate(t, limit) ==
    LET last == t[Len(t)]
        keep == last[3] - (TextLen(t) - limit)
        head == SubSeq(t, 1, Len(t) - 1)
    IN  IF keep <= 0 THEN head ELSE Append(head, <<last[1], last[2], keep, last[4]>>)

RECURSIVE PageLoop(_, _, _, _)
\* the page loop of a strategy from page p on: the text it leaves, whether
\* it raised and the last page it entered
PageLoop(t, strategy, run, p) ==
    IF p > NumPages THEN [text |-> t, raised |-> FALSE, page |-> p - 1]
    ELSE IF run.pages[p] = -1 THEN [text |-> t, raised |-> TRUE, page |-> p]
    ELSE LET added == IF run.pages[p] > 0
                      THEN Append(t, <<strategy, p, run.pages[p] + 1, run.pages[p] + 1>>)
                      ELSE t
         IN  IF TextLen(added) > TextLimit
             THEN [text |-> Truncate(added, TextLimit), raised |-> FALSE, page |-> p]
             ELSE PageLoop(added, strategy, run, p + 1)

\* one strategy's try block up to its length test
Strategy(t, strategy, run) ==
    IF ~run.opens THEN [text |-> t, raised |-> TRUE, page |-> 0]
    ELSE PageLoop(t, strategy, run, 1)

\* len(text.strip()): the text ends with the newline of its last page unless
\* the truncation cut it off
Stripped(t) ==
    IF t = <<>> THEN 0
    ELSE IF t[Len(t)][3] = t[Len(t)][4] THEN TextLen(t) - 1 ELSE TextLen(t)

\* how a strategy's try block ends: it returned, it raised, or it left too
\* little text
Verdict(r) ==
    IF r.raised THEN "raised"
    ELSE IF Stripped(r.text) > MinText THEN "success" ELSE "under"

\* ------------------------------------------------- the extraction chain
StrategyNames == {"pymupdf", "pdfplumber", "pypdf2", "ocr"}
NotTried == [n \in StrategyNames |-> "none"]
NoPages == [n \in StrategyNames |-> 0]

NoCall == [doc_id |-> 0, chunks |-> <<>>, embeddings |-> <<>>, i |-> 0]
NoSearch == [query |-> "", labels |-> <<>>]

\* no thread is inside add_document or search
ConcIdle ==
    /\ apc = "idle"
    /\ adding = NoCall
    /\ spc = "idle"
    /\ searching = NoSearch
    /\ seen = <<>>

\* no PDFProcessor has been constructed
ChunkIdle ==
    /\ chunk_size = 0
    /\ chunk_overlap = 0
    /\ doc = <<>>
    /\ body = <<>>
    /\ caller = ""
    /\ kpc = "idle"
    /\ start = 0
    /\ chunkList = <<>>
    /\ starts = <<>>
    /\ result = <<>>

\* no text has been given to _clean_text
CleanIdle ==
    /\ src = <<>>
    /\ cleaned = <<>>
    /\ recleaned = <<>>
    /\ cpc = "idle"

ExtractIdle ==
    /\ pdf = [encrypted |-> FALSE, password |-> FALSE]
    /\ pc = "idle"
    /\ text = <<>>
    /\ tried = <<>>
    /\ outcome = NotTried
    /\ prevStripped = <<>>
    /\ secondAlone = <<>>
    /\ reached = NoPages
    /\ error = ""

\* _extract_text_from_pdf(file_path, password) entered
InitExtract ==
    /\ InitIndex
    /\ CleanIdle
    /\ ChunkIdle
    /\ ConcIdle
    /\ pdf \in [encrypted : BOOLEAN, password : BOOLEAN]
    /\ pc = "pymupdf"
    /\ text = <<>>
    /\ tried = <<>>
    /\ outcome = NotTried
    /\ prevStripped = <<>>
    /\ secondAlone = <<>>
    /\ reached = NoPages
    /\ error = ""

\* the state a strategy's try block leaves, r being what its body did
AfterStrategy(name, r, next) ==
    /\ text' = r.text
    /\ tried' = Append(tried, name)
    /\ prevStripped' = Append(prevStripped, Stripped(text))
    /\ outcome' = [outcome EXCEPT ![name] = Verdict(r)]
    /\ reached' = [reached EXCEPT ![name] = r.page]
    /\ pc' = IF Verdict(r) = "success" THEN "returned" ELSE next
    /\ error' = ""

\* `raise ValueError("PDF is password-protected. Please provide a password.")`
EncryptedError == "PDF is password-protected. Please provide a password."

\* lines 57-87: PyMuPDF; an encrypted document without a password raises
\* ValueError inside the try block
TryPyMuPDF ==
    \E run \in Runs :
        LET r == IF pdf.encrypted /\ ~pdf.password
                 THEN [text |-> text, raised |-> TRUE, page |-> 0]
                 ELSE Strategy(text, "pymupdf", run)
        IN  /\ pc = "pymupdf"
            /\ AfterStrategy("pymupdf", r, "pdfplumber")
            /\ UNCHANGED <<pdf, secondAlone>>
            /\ UNCHANGED <<idxVars, clVars, chVars, coVars>>

\* lines 90-111: pdfplumber
TryPdfplumber ==
    \E run \in Runs :
        /\ pc = "pdfplumber"
        /\ AfterStrategy("pdfplumber", Strategy(text, "pdfplumber", run), "pypdf2")
        /\ secondAlone' = Strategy(<<>>, "pdfplumber", run).text
        /\ UNCHANGED pdf
        /\ UNCHANGED <<idxVars, clVars, chVars, coVars>>

\* lines 114-144: PyPDF2
TryPyPDF2 ==
    \E run \in Runs :
        /\ pc = "pypdf2"
        /\ AfterStrategy("pypdf2", Strategy(text, "pypdf2", run), "ocr")
        /\ UNCHANGED <<pdf, secondAlone>>
        /\ UNCHANGED <<idxVars, clVars, chVars, coVars>>

\* lines 147-176, `len(text.strip()) < 100`: OCR, then the last length test
TryOCR ==
    \E run \in Runs :
        LET r == Strategy(text, "ocr", run)
        IN  /\ pc = "ocr"
            /\ Stripped(text) < MinText
            /\ text' = r.text
            /\ tried' = Append(tried, "ocr")
            /\ prevStripped' = Append(prevStripped, Stripped(text))
            /\ reached' = [reached EXCEPT !["ocr"] = r.page]
            /\ outcome' = [outcome EXCEPT !["ocr"] =
                              IF r.raised THEN "raised"
                              ELSE IF Stripped(r.text) < MinText THEN "under"
                              ELSE "success"]
            /\ pc' = IF r.raised \/ Stripped(r.text) < MinText THEN "raised" ELSE "returned"
            /\ error' = IF r.raised THEN "All text extraction methods failed"
                        ELSE IF Stripped(r.text) < MinText
                        THEN "Could not extract sufficient text"
                        ELSE ""
            /\ UNCHANGED <<pdf, secondAlone>>
            /\ UNCHANGED <<idxVars, clVars, chVars, coVars>>

\* lines 147-176, `len(text.strip()) < 100` false: no OCR, the text is returned
SkipOCR ==
    /\ pc = "ocr"
    /\ ~(Stripped(text) < MinText)
    /\ pc' = "returned"
    /\ UNCHANGED <<pdf, text, tried, outcome, prevStripped, secondAlone, reached, error>>
    /\ UNCHANGED <<idxVars, clVars, chVars, coVars>>

NextExtract ==
    \/ TryPyMuPDF
    \/ TryPdfplumber
    \/ TryPyPDF2
    \/ TryOCR
    \/ SkipOCR

SpecExtract == InitExtract /\ [][NextExtract]_vars

\* ---------------------------------------------- PDFProcessor._clean_text
\* A text is a sequence of characters. The characters told apart: a letter,
\* a digit, the whitespace characters space and newline, and "~", a
\* character outside the class the second substitution keeps.
Alphabet == {"a", "1", " ", "\n", "~"}

MaxTextLen == 5

\* the texts of at most MaxTextLen characters
Texts == UNION {[1..n -> Alphabet] : n \in 0..MaxTextLen}

\* \s
IsSpace(c) == c \in {" ", "\n"}

\* \d
IsDigit(c) == c = "1"

\* the class [\w\s...\.\,\!...\n] of line 184
IsKept(c) == c # "~"

\* a character paired with whether a substitution drops it
NotDropped(p) == ~p[2]

\* the characters of the marked text m that are not dropped, in order
Surviving(m) ==
    LET kept == SelectSeq(m, NotDropped)
    IN  [i \in 1..Len(kept) |-> kept[i][1]]

\* line 181, re.sub(r'\s+', ' ', text): each run of whitespace becomes one
\* space (its first character turns into " ", the others are dropped)
CollapseWhitespace(s) ==
    Surviving([i \in 1..Len(s) |->
                  <<IF IsSpace(s[i]) THEN " " ELSE s[i],
                    i > 1 /\ IsSpace(s[i]) /\ IsSpace(s[i - 1])>>])

\* line 184, re.sub(r'[^...]', '', text): the characters outside the class go
RemoveDisallowed(s) == SelectSeq(s, IsKept)

\* ^ under re.MULTILINE at offset i: the start of the text or just after "\n"
LineStart(s, i) == i = 0 \/ s[i] = "\n"

\* $ under re.MULTILINE at offset i: the end of the text or just before "\n"
LineEnd(s, i) == i = Len(s) \/ s[i + 1] = "\n"

RECURSIVE DigitsEnd(_, _)
\* the offset at which the run of digits starting at offset i ends
DigitsEnd(s, i) == IF i < Len(s) /\ IsDigit(s[i + 1]) THEN DigitsEnd(s, i + 1) ELSE i

RECURSIVE SpacesEnd(_, _)
\* the offset at which the run of whitespace starting at offset i ends
SpacesEnd(s, i) == IF i < Len(s) /\ IsSpace(s[i + 1]) THEN SpacesEnd(s, i + 1) ELSE i

\* the match of ^\d+\s*$ at offset i: the offset it ends at (\s* gives back
\* whitespace until $ matches), or -1 when there is none
PageNumberEnd(s, i) ==
    IF ~(LineStart(s, i) /\ i < Len(s) /\ IsDigit(s[i + 1])) THEN -1
    ELSE LET j == DigitsEnd(s, i)
             ends == {m \in j..SpacesEnd(s, j) : LineEnd(s, m)}
         IN  IF ends # {} THEN CHOOSE m \in ends : \A e \in ends : e <= m ELSE -1

\* line 187, re.sub(r'^\d+\s*$', '', text, flags=re.MULTILINE): the characters
\* inside a match are dropped (no match can begin inside another: it begins
\* with a digit that follows "\n" or starts the text)
RemovePageNumbers(s) ==
    Surviving([p \in 1..Len(s) |->
                  <<s[p], \E i \in 0..(p - 1) : PageNumberEnd(s, i) >= p>>])

\* line 190, re.sub(r'\n{3,}', '\n\n', text): of a run of three or more
\* newlines the third and later ones are dropped
CollapseNewlines(s) ==
    Surviving([p \in 1..Len(s) |->
                  <<s[p], p >= 3 /\ s[p] = "\n" /\ s[p - 1] = "\n" /\ s[p - 2] = "\n">>])

RECURSIVE LStrip(_)
LStrip(s) == IF s # <<>> /\ IsSpace(Head(s)) THEN LStrip(Tail(s)) ELSE s

RECURSIVE RStrip(_)
RStrip(s) ==
    IF s # <<>> /\ IsSpace(s[Len(s)]) THEN RStrip(SubSeq(s, 1, Len(s) - 1)) ELSE s

\* str.strip()
Strip(s) == RStrip(LStrip(s))

\* _clean_text(text)
CleanText(s) ==
    Strip(CollapseNewlines(RemovePageNumbers(RemoveDisallowed(CollapseWhitespace(s)))))

\* a text about to be cleaned
InitClean ==
    /\ InitIndex
    /\ ExtractIdle
    /\ ChunkIdle
    /\ ConcIdle
    /\ src \in Texts
    /\ cleaned = <<>>
    /\ recleaned = <<>>
    /\ cpc = "given"

\* text = self._clean_text(text)
CleanOnce ==
    /\ cpc = "given"
    /\ cleaned' = CleanText(src)
    /\ cpc' = "cleaned"
    /\ UNCHANGED <<src, recleaned>>
    /\ UNCHANGED <<idxVars, exVars, chVars, coVars>>

\* _clean_text applied to its own result
CleanAgain ==
    /\ cpc = "cleaned"
    /\ recleaned' = CleanText(cleaned)
    /\ cpc' = "recleaned"
    /\ UNCHANGED <<src, cleaned>>
    /\ UNCHANGED <<idxVars, exVars, chVars, coVars>>

NextClean ==
    \/ CleanOnce
    \/ CleanAgain

SpecClean == InitClean /\ [][NextClean]_vars

\* ------------------------- PDFProcessor.__init__, _chunk_text, process_pdf
\* `if len(chunk) > 20`
MinChunk == 20

\* `while start < text_length and chunk_count < 100`
LoopCap == 100

\* `if len(chunks) > 50: chunks = chunks[:50]`
ProcessCap == 50

\* the (chunk_size, chunk_overlap) pairs a PDFProcessor is constructed with:
\* a stride of 1 with an overlap above MinChunk, a stride of the whole
\* window, a stride of 0, and the smallest window, of one character
Configs ==
    {[size |-> MinChunk + 3, overlap |-> MinChunk + 2],
     [size |-> MinChunk + 10, overlap |-> 0],
     [size |-> MinChunk + 2, overlap |-> MinChunk + 2],
     [size |-> 1, overlap |-> 0]}

ShortLen == 50
LongLen == 100
WordGap == 11

\* a text of n characters: letters, with a space at every g-th place (g = 0:
\* letters only)
Words(n, g) == [i \in 1..n |-> IF g > 0 /\ i % g = 0 THEN " " ELSE "a"]

\* the texts given to the chunker: every length up to ShortLen and LongLen
ChunkTexts == {Words(n, g) : n \in (0..ShortLen) \cup {LongLen}, g \in {0, WordGap}}

\* text[a:b] for 0 <= a
Slice(t, a, b) == SubSeq(t, a + 1, IF b < Len(t) THEN b ELSE Len(t))

\* a cap keeping the last n chunks, chunks[-n:]
CapChunksLast(chs, n) ==
    IF Len(chs) > n THEN SubSeq(chs, Len(chs) - n + 1, Len(chs)) ELSE chs

\* lines 42-44: `if len(chunks) > 50: chunks = chunks[:50]`
CapChunks(chs, n) == IF Len(chs) > n THEN SubSeq(chs, 1, n) ELSE chs

\* a PDFProcessor not yet constructed, and the text it will work on
InitChunk ==
    /\ InitIndex
    /\ ExtractIdle
    /\ CleanIdle
    /\ ConcIdle
    /\ chunk_size = 0
    /\ chunk_overlap = 0
    /\ doc \in ChunkTexts
    /\ body = <<>>
    /\ caller = ""
    /\ kpc = "new"
    /\ start = 0
    /\ chunkList = <<>>
    /\ starts = <<>>
    /\ result = <<>>

\* lines 16-19, PDFProcessor(chunk_size, chunk_overlap): the two values are
\* stored as given
Construct ==
    \E c \in Configs :
        /\ kpc = "new"
        /\ chunk_size' = c.size
        /\ chunk_overlap' = c.overlap
        /\ kpc' = "ready"
        /\ UNCHANGED <<doc, body, caller, start, chunkList, starts, result>>
        /\ UNCHANGED <<idxVars, exVars, clVars, coVars>>

\* lines 194-210, _chunk_text(text) entered
CallChunkText ==
    /\ kpc = "ready"
    /\ caller' = "direct"
    /\ body' = doc
    /\ start' = 0
    /\ chunkList' = <<>>
    /\ starts' = <<>>
    /\ kpc' = "loop"
    /\ UNCHANGED <<chunk_size, chunk_overlap, doc, result>>
    /\ UNCHANGED <<idxVars, exVars, clVars, coVars>>

\* lines 21-38, process_pdf up to its call of _chunk_text: extraction has
\* returned doc; a blank text returns [] at once, any other is cleaned
CallProcessPdf ==
    /\ kpc = "ready"
    /\ caller' = "process_pdf"
    /\ start' = 0
    /\ chunkList' = <<>>
    /\ starts' = <<>>
    /\ body' = IF Strip(doc) = <<>> THEN <<>> ELSE CleanText(doc)
    /\ kpc' = IF Strip(doc) = <<>> THEN "processed" ELSE "loop"
    /\ result' = <<>>
    /\ UNCHANGED <<chunk_size, chunk_overlap, doc>>
    /\ UNCHANGED <<idxVars, exVars, clVars, coVars>>

\* the return of _chunk_text with chunk list chs, and the rest of process_pdf
\* (lines 41-51) when it was the caller
Return(chs) ==
    /\ result' = IF caller = "process_pdf" THEN CapChunks(chs, ProcessCap) ELSE chs
    /\ kpc' = IF caller = "process_pdf" THEN "processed" ELSE "chunked"

\* a next start one short of `end - overlap`
NextStartShort(end, overlap) == end - overlap - 1

\* line 228: `start = end - overlap`
NextStart(end, overlap) == end - overlap

\* lines 212-230, one turn of the while loop; the break of line 230 returns
ChunkStep ==
    LET end == start + chunk_size
        chunk == Strip(Slice(body, start, end))
        added == Len(chunk) > MinChunk
        chs == IF added THEN Append(chunkList, chunk) ELSE chunkList
    IN  /\ kpc = "loop"
        /\ start < Len(body) /\ Len(chunkList) < LoopCap
        /\ chunkList' = chs
        /\ starts' = IF added THEN Append(starts, start) ELSE starts
        /\ start' = NextStart(end, chunk_overlap)
        /\ IF NextStart(end, chunk_overlap) >= Len(body)
           THEN Return(chs)
           ELSE kpc' = "loop" /\ result' = result
        /\ UNCHANGED <<chunk_size, chunk_overlap, doc, body, caller>>
        /\ UNCHANGED <<idxVars, exVars, clVars, coVars>>

\* line 212, the loop condition false: _chunk_text returns
ChunkExit ==
    /\ kpc = "loop"
    /\ ~(start < Len(body) /\ Len(chunkList) < LoopCap)
    /\ Return(chunkList)
    /\ UNCHANGED <<chunk_size, chunk_overlap, doc, body, caller, start, chunkList, starts>>
    /\ UNCHANGED <<idxVars, exVars, clVars, coVars>>

NextChunk ==
    \/ Construct
    \/ CallChunkText
    \/ CallProcessPdf
    \/ ChunkStep
    \/ ChunkExit

SpecChunk == InitChunk /\ [][NextChunk]_vars

\* _chunk_text is straight-line code run by one thread: a call that has been
\* entered takes the next turn of its loop, and leaves the loop when the
\* condition of line 212 is false
SpecChunkLive ==
    InitChunk /\ [][NextChunk]_vars /\ WF_vars(ChunkStep) /\ WF_vars(ChunkExit)

\* -------------- VectorStoreFAISS called from two threads at the same time
\* One thread runs add_document and one runs search on the same object;
\* the class holds no lock, so the statements of the two calls interleave.
InitConc == InitIndex /\ ExtractIdle /\ CleanIdle /\ ChunkIdle /\ ConcIdle

\* line 42, add_document(doc_id, chunks) entered: embeddings = encode(chunks)
AddEncode ==
    \E d \in FreshIds : \E chunks \in ChunkLists(d) :
        /\ apc = "idle"
        /\ adding' = [doc_id |-> d, chunks |-> chunks,
                      embeddings |-> Encode(chunks), i |-> 0]
        /\ apc' = "index_add"
        /\ usedIds' = usedIds \cup {d}
        /\ UNCHANGED <<index, documents, diskIndex, diskDocs, dbDocs, running,
                       lastOp, lastDoc, ret, raised, status, hitPos, failedDocs,
                       deletedOk>>
        /\ UNCHANGED <<spc, searching, seen>>
        /\ UNCHANGED <<exVars, clVars, chVars>>

\* lines 45-48, self.index.add(embeddings)
AddToIndex ==
    /\ apc = "index_add"
    /\ index' = index \o adding.embeddings
    /\ apc' = "append"
    /\ UNCHANGED <<documents, diskIndex, diskDocs, dbDocs, usedIds, running,
                   lastOp, lastDoc, ret, raised, status, hitPos, failedDocs,
                   deletedOk>>
    /\ UNCHANGED <<adding, spc, searching, seen>>
    /\ UNCHANGED <<exVars, clVars, chVars>>

\* lines 51-56, one turn of the loop: self.documents.append({...})
AddAppend ==
    /\ apc = "append"
    /\ adding.i < Len(adding.chunks)
    /\ documents' = Append(documents,
                           NewRecords(adding.doc_id, adding.chunks)[adding.i + 1])
    /\ adding' = [adding EXCEPT !.i = adding.i + 1]
    /\ apc' = IF adding.i + 1 = Len(adding.chunks) THEN "save" ELSE "append"
    /\ UNCHANGED <<index, diskIndex, diskDocs, dbDocs, usedIds, running,
                   lastOp, lastDoc, ret, raised, status, hitPos, failedDocs,
                   deletedOk>>
    /\ UNCHANGED <<spc, searching, seen>>
    /\ UNCHANGED <<exVars, clVars, chVars>>

\* line 58, self._save_index(), and the return of add_document
AddSave ==
    /\ apc = "save"
    /\ diskIndex' = SaveIndex(index, documents).index
    /\ diskDocs' = SaveIndex(index, documents).docs
    /\ adding' = NoCall
    /\ apc' = "idle"
    /\ UNCHANGED <<index, documents, dbDocs, usedIds, running, lastOp, lastDoc,
                   ret, raised, status, hitPos, failedDocs, deletedOk>>
    /\ UNCHANGED <<spc, searching, seen>>
    /\ UNCHANGED <<exVars, clVars, chVars>>

\* lines 61-64, search(query, top_k) entered: self.index.search(...)
SearchIndex ==
    \E q \in Queries, k \in TopKs :
        /\ spc = "idle"
        /\ searching' = [query |-> q, labels |-> Ranking(Embed(q), index, k)]
        /\ seen' = <<Len(index)>>
        /\ spc' = "collect"
        /\ UNCHANGED idxVars
        /\ UNCHANGED <<apc, adding>>
        /\ UNCHANGED <<exVars, clVars, chVars>>

\* lines 67-75, the loop over the labels, reading self.documents, and the
\* return of search
SearchCollect ==
    LET call == SearchCall(searching.labels, searching.query)
    IN  /\ spc = "collect"
        /\ ret' = call.results
        /\ hitPos' = call.positions
        /\ raised' = call.raised
        /\ lastOp' = "search"
        /\ lastDoc' = 0
        /\ status' = 0
        /\ seen' = <<seen[1], Len(documents)>>
        /\ searching' = NoSearch
        /\ spc' = "idle"
        /\ UNCHANGED <<index, documents, diskIndex, diskDocs, dbDocs, usedIds,
                       running, failedDocs, deletedOk>>
        /\ UNCHANGED <<apc, adding>>
        /\ UNCHANGED <<exVars, clVars, chVars>>

NextConc ==
    \/ AddEncode
    \/ AddToIndex
    \/ AddAppend
    \/ AddSave
    \/ SearchIndex
    \/ SearchCollect

SpecConc == InitConc /\ [][NextConc]_vars

Init == InitIndex /\ ExtractIdle /\ CleanIdle /\ ChunkIdle /\ ConcIdle
Spec == Init /\ [][Next]_vars

\* --------------------------------------------------------------- claims
Paired(idx, docs) ==
    /\ Len(idx) = Len(docs)
    /\ \A i \in 1..Len(docs) : idx[i] = Embed(docs[i].content)

Loaded == LoadIndex(diskIndex, diskDocs)

\* C1: a VectorStoreFAISS that has been constructed and has since completed
\* only successful add_document calls and deletions holds as many vectors as
\* the side table holds records, and the vector at each position is the
\* embedding of the content of the record at that position.
C1_IndexPairedWithSideTable ==
    (running /\ lastOp \in {"init", "restart", "upload_ok", "delete_ok"})
        => Paired(index, documents)

\* C2: after the process died inside _save_index, the two files a later
\* _load_index reads hold the same number of vectors and of records.
C2_CrashLeavesMatchingFiles ==
    (lastOp = "upload_crash" /\ ~Loaded.raised)
        => Len(Loaded.index) = Len(Loaded.documents)

\* C3: a document whose add_document raised has no record in the side table
\* and no record in the side-table file.
C3_FailedAddLeavesNothing ==
    /\ running => \A i \in 1..Len(documents) : documents[i].doc_id \notin failedDocs
    /\ ~Loaded.raised =>
          \A i \in 1..Len(Loaded.documents) :
              Loaded.documents[i].doc_id \notin failedDocs

\* C4: search on an index that holds no vectors and no records returns the
\* "nothing indexed" sentinel: it raises nothing and its first hit carries
\* the sentinel text.
C4_EmptySearchReturnsSentinel ==
    (lastOp = "search" /\ index = <<>> /\ documents = <<>>)
        => raised = "" /\ ret # <<>> /\ ret[1][1] = Sentinel

\* C5: once a delete request for a document has answered "Document deleted
\* successfully", no search resolves a hit to a record of that document.
C5_DeletedNeverReturned ==
    lastOp \in {"search", "query"}
        => \A i \in 1..Len(hitPos) : documents[hitPos[i]].doc_id \notin deletedOk

C7_HitsAreTriples ==
    lastOp \in {"search", "query"} => \A i \in 1..Len(ret) : Len(ret[i]) = 3

\* C8: after a successful add_document the two files load to the state held
\* in memory, records and vectors in the same order; and with either file
\* missing the load yields the empty index and the empty side table.
C8_SaveLoadRoundTrip ==
    /\ lastOp = "upload_ok" =>
          Loaded = [raised |-> FALSE, index |-> index, documents |-> documents]
    /\ (diskIndex = Missing \/ diskDocs = Missing) =>
          Loaded = [raised |-> FALSE, index |-> <<>>, documents |-> <<>>]

\* C8 witness: a restart that loaded what two successful uploads had saved
C8_Witness ==
    /\ lastOp = "restart"
    /\ Len(documents) >= 3
    /\ Cardinality({documents[i].doc_id : i \in 1..Len(documents)}) = 2
    /\ failedDocs = {}

StrategyOrder == <<"pymupdf", "pdfplumber", "pypdf2", "ocr">>
TextLayer == {"pymupdf", "pdfplumber", "pypdf2"}
Ended == pc \in {"returned", "raised"}

\* C9: the strategies are tried in the order PyMuPDF, pdfplumber, PyPDF2, OCR;
\* each one after the first is tried only if the one before it raised or left
\* fewer than 100 stripped characters; and at the end OCR has been tried
\* exactly when the three text-layer strategies all raised or under-yielded.
C9_FallbackOrder ==
    /\ tried = SubSeq(StrategyOrder, 1, Len(tried))
    /\ \A i \in 2..Len(tried) :
          outcome[tried[i - 1]] = "raised" \/ prevStripped[i] < MinText
    /\ Ended =>
          (("ocr" \in {tried[i] : i \in 1..Len(tried)})
              <=> \A n \in TextLayer : outcome[n] \in {"raised", "under"})

\* C10: when PyMuPDF raised and pdfplumber then succeeded, the text returned
\* is the text pdfplumber extracts from the document on its own.
C10_SecondaryAlone ==
    (pc = "returned" /\ outcome["pymupdf"] = "raised"
        /\ outcome["pdfplumber"] = "success")
        => text = secondAlone

\* C11: within one strategy, when the extraction of page k raised, the pages
\* after k were still entered by that strategy.
C11_PageFailureContinues ==
    \A n \in StrategyNames :
        (outcome[n] = "raised" /\ reached[n] >= 1) => reached[n] = NumPages

\* C12: for an encrypted document given without a password, extraction stops
\* at the first strategy and raises the password-protected error: no later
\* strategy is tried and no other error or text comes out.
C12_EncryptedErrorSurfaced ==
    (pdf.encrypted /\ ~pdf.password /\ tried # <<>>)
        => (pc = "raised" /\ error = EncryptedError /\ tried = <<"pymupdf">>)

\* C13: the text _extract_text_from_pdf returns is at most 1,000,000
\* characters long, whatever each strategy did and whatever text an earlier
\* strategy left to a later one.
C13_TextWithinLimit == pc = "returned" => TextLen(text) <= TextLimit

\* C13 witness: a returned text of exactly 1,000,000 characters, begun by one
\* strategy that then raised and cut while a later strategy was adding to it
C13_Witness ==
    /\ pc = "returned"
    /\ TextLen(text) = TextLimit
    /\ Len(text) >= 2
    /\ text[1][1] # text[Len(text)][1]
    /\ outcome[text[1][1]] = "raised"
    /\ text[Len(text)][3] < text[Len(text)][4]

\* C14: an upload whose PDF has more than 100 pages is answered with the
\* too-large failure ("PDF too large (max 100 pages)", a 4xx status), and
\* neither the index, the side table nor the metadata rows hold anything of it.
C14_OversizeRejectedAsTooLarge ==
    lastOp = "upload_too_many_pages" =>
        /\ status \in {400, 413}
        /\ raised = TooLargeDetail
        /\ \A i \in 1..Len(documents) : documents[i].doc_id # lastDoc
        /\ dbDocs[lastDoc] = 0
        /\ pc = "idle"

\* C15: _clean_text applied to its own result returns that result unchanged.
C15_CleanTextIdempotent == cpc = "recleaned" => recleaned = cleaned

\* the stride of the constructed PDFProcessor
Stride == chunk_size - chunk_overlap

PositiveStride == 0 <= chunk_overlap /\ chunk_overlap < chunk_size

\* ceil(a / b) for b > 0
CeilDiv(a, b) == IF a <= 0 THEN 0 ELSE (a + b - 1) \div b

Smaller(a, b) == IF a < b THEN a ELSE b

LongEnough(c) == Len(c) > MinChunk

\* the chunks of text t cut with window w at every multiple of the stride v,
\* with no cap on their number
AllChunks(t, w, v) ==
    SelectSeq([k \in 1..CeilDiv(Len(t), v) |-> Strip(Slice(t, (k - 1) * v, (k - 1) * v + w))],
              LongEnough)

\* C16: with 0 <= overlap < chunk_size, every chunk _chunk_text returns but
\* the last is chunk_size characters long, and the k-th chunk (counting from
\* 0) was cut at offset k * (chunk_size - chunk_overlap) of the text.
C16_ChunkSizesAndOffsets ==
    (kpc = "chunked" /\ PositiveStride) =>
        \A k \in 1..Len(result) :
            /\ k < Len(result) => Len(result[k]) = chunk_size
            /\ starts[k] = (k - 1) * Stride

\* C17: no PDFProcessor exists whose chunk_overlap is at least its
\* chunk_size: constructing one fails.
C17_OverlapRejectedAtConstruction ==
    kpc \notin {"idle", "new"} => chunk_overlap < chunk_size

\* C18: with a positive stride, the list process_pdf returns has at most 50
\* chunks and is the beginning of the list that cutting the cleaned text with
\* no cap gives: the same chunks, whole, in the same order.
C18_CappedPrefix ==
    (kpc = "processed" /\ PositiveStride) =>
        /\ Len(result) <= ProcessCap
        /\ result = SubSeq(AllChunks(body, chunk_size, Stride), 1, Len(result))

\* C18 witness: process_pdf returned 50 chunks of a text that cuts into more
C18_Witness ==
    /\ kpc = "processed"
    /\ PositiveStride
    /\ Len(result) = ProcessCap
    /\ Len(AllChunks(body, chunk_size, Stride)) > ProcessCap
    /\ \E i \in 1..Len(body) : body[i] = " "

\* C19: with 0 <= overlap < chunk_size, for a text longer than the overlap,
\* _chunk_text returns at most min(ceil((L - O) / S), 100) chunks, L being
\* the length of the text, O the overlap and S the stride.
C19_ChunkCountBound ==
    (kpc = "chunked" /\ PositiveStride /\ Len(body) > chunk_overlap) =>
        Len(result) <= Smaller(CeilDiv(Len(body) - chunk_overlap, Stride), LoopCap)

\* place p of the text lies in the k-th returned chunk laid at its stride offset
CoveredBy(p, k) ==
    (k - 1) * Stride < p /\ p <= (k - 1) * Stride + Len(result[k])

\* C20: with a positive stride, for a cleaned text longer than chunk_size,
\* the chunks process_pdf returns, each laid at its stride offset, cover
\* every character of the text but a tail of fewer than 20 characters.
C20_ChunksCoverText ==
    (kpc = "processed" /\ PositiveStride /\ Len(body) > chunk_size) =>
        \A p \in 1..(Len(body) - MinChunk + 1) :
            \E k \in 1..Len(result) : CoveredBy(p, k)

\* C21: add_document and search running in two threads on one
\* VectorStoreFAISS: the index a search searched and the side table it then
\* read held the same number of entries (the search met neither an index
\* ahead of the side table nor the reverse).
C21_SearchSeesPairedStore == Len(seen) = 2 => seen[1] = seen[2]

\* the label row query_document's search got from the library
QueryLabels == Ranking(Embed(CHOOSE q \in Queries : TRUE), index, QueryTopK)

\* C22: on an index of n >= 1 chunks paired with its side table, a search that
\* returned holds at most min(top_k, n) results, no chunk twice, and each
\* result is the content of the chunk at the position the library reported:
\* a padding label -1 yields no result.
C22_ResultsAreDistinctChunks ==
    (/\ lastOp \in {"search", "query"}
     /\ raised = ""
     /\ Len(index) >= 1
     /\ Paired(index, documents))
    => /\ Len(ret) <= Len(index)
       /\ \A i, j \in DOMAIN hitPos : i # j => hitPos[i] # hitPos[j]
       /\ lastOp = "query" =>
            /\ Len(ret) <= Smaller(QueryTopK, Len(index))
            /\ \A i \in DOMAIN ret :
                    /\ QueryLabels[i] # -1
                    /\ hitPos[i] = QueryLabels[i] + 1
                    /\ ret[i][1] = documents[hitPos[i]].content

\* the loop of _chunk_text is about to run one more turn
InLoop == kpc = "loop" /\ start < Len(body) /\ Len(chunkList) < LoopCap

\* C23: with chunk_size >= 1 and 0 <= chunk_overlap < chunk_size, every turn of
\* the loop of _chunk_text moves the window start strictly forward, whether
\* the window was kept or dropped, and every call of _chunk_text returns.
C23_ChunkTextTerminates ==
    /\ [][(InLoop /\ chunk_size >= 1 /\ PositiveStride) => start' > start]_vars
    /\ (kpc = "loop" /\ chunk_size >= 1 /\ PositiveStride)
            ~> (kpc \in {"chunked", "processed"})

\* a call with a positive stride has returned after dropping a window and
\* keeping another, without reaching the cap
C23_Witness ==
    /\ kpc \in {"chunked", "processed"}
    /\ chunk_size >= 1 /\ PositiveStride
    /\ Len(chunkList) >= 1
    /\ Len(chunkList) < LoopCap
    /\ Len(chunkList) < CeilDiv(Len(body), Stride)
    /\ start >= Len(body)

====
